---- MODULE Spec2Model ----
(***************************************************************************)
(* Model of src/rust/src/api.rs: the reduction of a parsed protobuf file   *)
(* descriptor to the Proto / Service / Method / Message / Field tree, and  *)
(* the batch entry point load_proto_from_files.                            *)
(*                                                                         *)
(* Rust values are encoded as follows.                                     *)
(*   Option<T>    : <<>> for None, <<v>> for Some(v)                        *)
(*   Result<T>    : [tag |-> "Ok", val |-> v] / [tag |-> "Err", error |-> e]*)
(*   a panic      : [panic |-> message, ...]                               *)
(*   Vec<T>       : a sequence                                             *)
(*   a path       : the sequence of its components ("" is <<>>)            *)
(***************************************************************************)
EXTENDS Integers, Sequences, FiniteSets, TLC

VARIABLES
    paths,          \* load_proto_from_files: the argument Vec<String>
    pc,             \* control position of the call being modelled
    i,              \* load_proto_from_files: number of paths the iterator has consumed
    parse_result,   \* Proto::from_file: what parse_and_typecheck() returned for the current path
    result,         \* Proto::from_file: its return value for the current path
    protos,         \* load_proto_from_files: the Vec<Proto> collected so far
    ret,            \* what the modelled call handed to its caller
    parsed,         \* the locations the external parser was invoked on, in order
    arg             \* the argument of a classifier / reducer called on its own

vars == <<paths, pc, i, parse_result, result, protos, ret, parsed, arg>>

----------------------------------------------------------------------------
(* Bounds of the model *)

\* longest Vec<String> handed to load_proto_from_files
MaxPaths == 2
\* most top-level declarations (services + messages) in one file
MaxDecls == 2
\* most methods in a service / fields in a message
MaxMembers == 2

----------------------------------------------------------------------------
(* Rust value encodings *)

None == <<>>
Some(v) == <<v>>
IsSome(o) == Len(o) > 0

NoValue == [tag |-> "None"]
Ok(v) == [tag |-> "Ok", val |-> v]
Err(e) == [tag |-> "Err", error |-> e]
IsOk(r) == r.tag = "Ok"
IsErr(r) == r.tag = "Err"

IsPanic(x) == "panic" \in DOMAIN x

\* all sequences over S of length at most n
SeqsUpTo(S, n) == UNION {[1..k -> S] : k \in 0..n}

\* number of values of a u8
U8Modulus == 256

\* `b as u8`
BoolAsU8(b) == IF b THEN 1 ELSE 0

\* `x << n` on u8
Shl8(x, n) == (x * (2 ^ n)) % U8Modulus

\* `a & b` on u8
RECURSIVE BitAnd(_, _)
BitAnd(a, b) ==
    IF a = 0 \/ b = 0 THEN 0
    ELSE ((a % 2) * (b % 2)) + 2 * BitAnd(a \div 2, b \div 2)

\* the elements of a Vec
Elems(xs) == {xs[k] : k \in 1..Len(xs)}

\* `xs.into_iter().map(f).collect()` / `xs.map(f).collect()` into a Vec:
\* the k-th element onwards, each mapped by the closure f and pushed in turn
RECURSIVE MapCollectFrom(_, _, _)
MapCollectFrom(f, xs, k) ==
    IF k > Len(xs) THEN <<>>
    ELSE <<f[xs[k]]>> \o MapCollectFrom(f, xs, k + 1)

\* a collect that builds the Vec back to front
MapCollectReversed(f, xs) ==
    LET ys == MapCollectFrom(f, xs, 1) IN
    [k \in 1..Len(ys) |-> ys[Len(ys) + 1 - k]]

MapCollect(f, xs) == MapCollectFrom(f, xs, 1)

\* a panic inside a map closure unwinds out of the whole expression: the
\* first element that panicked, if any
HasPanic(ys) == \E k \in 1..Len(ys) : IsPanic(ys[k])
FirstPanic(ys) ==
    ys[CHOOSE k \in 1..Len(ys) :
          IsPanic(ys[k]) /\ \A j \in 1..(k - 1) : ~IsPanic(ys[j])]

----------------------------------------------------------------------------
(* MethodKind and Method::from_descriptor_proto *)

MethodKind == {"Unknown", "Unary", "ClientStreaming", "ServerStreaming",
               "BidirectionalStreaming"}

\* impl Default for MethodKind
MethodKindDefault == "Unknown"

\* Method::default()
MethodDefault == [name |-> "", kind |-> MethodKindDefault, input_type |-> ""]

\* MethodDescriptorProto accessors: has_x() is presence, x() is the value or false
has_client_streaming(m) == IsSome(m.client_streaming)
has_server_streaming(m) == IsSome(m.server_streaming)
client_streaming_flag(m) == IF IsSome(m.client_streaming) THEN m.client_streaming[1] ELSE FALSE
server_streaming_flag(m) == IF IsSome(m.server_streaming) THEN m.server_streaming[1] ELSE FALSE

\* the scrutinee of the match
StreamingBits(m) ==
    LET client_streaming == BoolAsU8(has_client_streaming(m))
        server_streaming == Shl8(BoolAsU8(has_server_streaming(m)), 1)
    IN  BitAnd(client_streaming, server_streaming)

\* an 0b00 arm that assigns nothing, leaving the default kind
MatchKindUnaryUnset(method, bits) ==
    CASE bits = 0 -> method
      [] bits = 2 -> [method EXCEPT !.kind = "ClientStreaming"]
      [] bits = 1 -> [method EXCEPT !.kind = "ServerStreaming"]
      [] bits = 3 -> [method EXCEPT !.kind = "BidirectionalStreaming"]
      [] OTHER    -> [panic |-> "internal error: entered unreachable code"]

\* the match: each arm assigns method.kind, the wildcard arm is unreachable!()
MatchKind(method, bits) ==
    CASE bits = 0 -> [method EXCEPT !.kind = "Unary"]
      [] bits = 2 -> [method EXCEPT !.kind = "ClientStreaming"]
      [] bits = 1 -> [method EXCEPT !.kind = "ServerStreaming"]
      [] bits = 3 -> [method EXCEPT !.kind = "BidirectionalStreaming"]
      [] OTHER    -> [panic |-> "internal error: entered unreachable code"]

MethodFromDescriptorProto(m) ==
    LET named == [MethodDefault EXCEPT !.name = m.name]
        kinded == MatchKind(named, StreamingBits(m))
    IN  IF IsPanic(kinded) THEN kinded
        ELSE [kinded EXCEPT !.input_type = m.input_type]

----------------------------------------------------------------------------
(* FieldKind and Field::from_descriptor *)

\* the variants of FieldKind in discriminant order, Unknown = 0 first
FieldKind == <<"Unknown", "Double", "Float", "Int64", "Uint64", "Int32",
               "Fixed64", "Fixed32", "Bool", "String", "Group", "Message",
               "Bytes", "Uint32", "Enum", "Sfixed32", "Sfixed64", "Sint32",
               "Sint64">>

\* impl Default for FieldKind
FieldKindDefault == FieldKind[1]

\* Field::default()
FieldDefault == [name |-> "", field_type |-> FieldKindDefault,
                 optional |-> FALSE, repeated |-> FALSE]

FieldFromDescriptorNegated(f) ==
    [FieldDefault EXCEPT !.name = f.name,
                         !.optional = ~f.is_repeated,
                         !.repeated = f.is_repeated]

FieldFromDescriptor(f) ==
    [FieldDefault EXCEPT !.name = f.name,
                         !.optional = f.is_singular,
                         !.repeated = f.is_repeated]

----------------------------------------------------------------------------
(* Message, Service and the reduction of one file descriptor *)

MessageDefault == [name |-> "", fields |-> <<>>]
ServiceDefault == [name |-> "", methods |-> <<>>]
ProtoDefault == [name |-> "", package |-> "", services |-> <<>>, messages |-> <<>>]

MessageFromDescriptorProto(md) ==
    LET fields == MapCollect([f \in Elems(md.fields) |-> FieldFromDescriptor(f)], md.fields) IN
    IF HasPanic(fields) THEN FirstPanic(fields)
    ELSE [MessageDefault EXCEPT !.name = md.name, !.fields = fields]

ServiceFromDescriptorProto(sd) ==
    LET methods == MapCollect([m \in Elems(sd.method) |-> MethodFromDescriptorProto(m)], sd.method) IN
    IF HasPanic(methods) THEN FirstPanic(methods)
    ELSE [ServiceDefault EXCEPT !.name = sd.name, !.methods = methods]

\* Proto::from_file after the descriptor is in hand
ProtoFromFileDescriptor(fd) ==
    LET services == MapCollect([s \in Elems(fd.service) |-> ServiceFromDescriptorProto(s)], fd.service)
        messages == MapCollect([m \in Elems(fd.messages) |-> MessageFromDescriptorProto(m)], fd.messages)
    IN  IF HasPanic(services) THEN FirstPanic(services)
        ELSE IF HasPanic(messages) THEN FirstPanic(messages)
        ELSE [ProtoDefault EXCEPT !.name = fd.name,
                                  !.package = fd.package,
                                  !.services = services,
                                  !.messages = messages]

----------------------------------------------------------------------------
(* The descriptors the external parser can hand over *)

OptionBool == {None, Some(FALSE), Some(TRUE)}

MethodNames == {"Login", "Logout", "Watch"}
InputTypes == {".auth.LoginRequest", ".auth.Empty"}

\* MethodDescriptorProto: name, input_type and the two optional streaming flags
MethodDescriptorProtos ==
    [name : MethodNames, input_type : InputTypes,
     client_streaming : OptionBool, server_streaming : OptionBool]

FieldNames == {"id", "tags"}

\* FieldDescriptorProto.Type tags: 1..18 are the wire types, in the order of
\* the FieldKind variants; 0 and 19 are tags outside the enumeration
WireTypes == 0..Len(FieldKind)

\* FieldDescriptor: name, wire-type tag and the two cardinality queries
FieldDescriptors ==
    [name : FieldNames, type : WireTypes,
     is_singular : BOOLEAN, is_repeated : BOOLEAN]

\* the leaves used inside whole files: two methods and two fields with
\* different names, flags and types
FileMethods ==
    {[name |-> "Login", input_type |-> ".auth.LoginRequest",
      client_streaming |-> None, server_streaming |-> None],
     [name |-> "Watch", input_type |-> ".auth.Empty",
      client_streaming |-> Some(TRUE), server_streaming |-> Some(TRUE)]}

FileFields ==
    {[name |-> "id", type |-> 3, is_singular |-> TRUE, is_repeated |-> FALSE],
     [name |-> "tags", type |-> 9, is_singular |-> FALSE, is_repeated |-> TRUE]}

ServiceNames == {"Auth", "Events"}
MessageNames == {"LoginRequest", "Empty"}
Packages == {"auth"}

\* ServiceDescriptorProto / MessageDescriptor with at most m members
ServiceDescriptorProtos(m) ==
    [name : ServiceNames, method : SeqsUpTo(FileMethods, m)]
MessageDescriptors(m) ==
    [name : MessageNames, fields : SeqsUpTo(FileFields, m)]

\* file descriptors named n with at most d top-level declarations of at most
\* m members each
FileDescriptors(n, d, m) ==
    UNION {
        [name : {n}, package : Packages,
         service : [1..k -> ServiceDescriptorProtos(m)],
         messages : [1..j -> MessageDescriptors(m)]]
        : <<k, j>> \in {kj \in (0..d) \X (0..d) : kj[1] + kj[2] <= d}}

----------------------------------------------------------------------------
(* Proto::from_file and load_proto_from_files *)

\* the source locations a caller may name; "" has no parent directory
Locations == {<<>>, <<"auth.proto">>, <<"proto", "chat.proto">>}

\* Path::parent()
Parent(path) == IF path = <<>> THEN None ELSE Some(SubSeq(path, 1, Len(path) - 1))

\* the file name the parser gives a descriptor: the input relative to the
\* include directory, which is the input's parent
FileName(path) == path[Len(path)]

\* parse_and_typecheck().map(|f| FileDescriptor::new_dynamic(..)): the parser
\* fails with an error naming the location, or yields file_descriptors[0], of
\* which new_dynamic fails or yields the FileDescriptor
ParserOutcomes(path) ==
    {Err([kind |-> "ParseError", location |-> path])}
    \cup {Ok(Err([kind |-> "ReflectError", location |-> path]))}
    \cup {Ok(Ok(fd)) : fd \in FileDescriptors(FileName(path), 1, 1)}

ParseSucceeded(r) == IsOk(r) /\ IsOk(r.val)

\* an error path that hands back the default-constructed Proto instead
FromFileTailDefault(r) ==
    IF IsErr(r) THEN Ok(ProtoDefault)
    ELSE IF IsErr(r.val) THEN Ok(ProtoDefault)
    ELSE LET proto == ProtoFromFileDescriptor(r.val.val) IN
         IF IsPanic(proto) THEN proto ELSE Ok(proto)

\* the `??` and the rest of from_file: either error returns early, otherwise
\* the descriptor is reduced and Ok(proto) returned
FromFileTail(r) ==
    IF IsErr(r) THEN r
    ELSE IF IsErr(r.val) THEN r.val
    ELSE LET proto == ProtoFromFileDescriptor(r.val.val) IN
         IF IsPanic(proto) THEN proto ELSE Ok(proto)

Init ==
    /\ paths \in SeqsUpTo(Locations, MaxPaths)
    /\ pc = "iter"
    /\ i = 0
    /\ parse_result = NoValue
    /\ result = NoValue
    /\ protos = <<>>
    /\ ret = NoValue
    /\ parsed = <<>>
    /\ arg = NoValue

\* from_file on the next path: PathBuf::from(path).parent().unwrap() panics
FromFileNoParent ==
    /\ pc = "iter"
    /\ i < Len(paths)
    /\ Parent(paths[i + 1]) = None
    /\ pc' = "panicked"
    /\ ret' = [panic |-> "called Option::unwrap() on a None value"]
    /\ UNCHANGED <<paths, i, parse_result, result, protos, parsed, arg>>

\* from_file on the next path: the external parser is run on it
FromFileParse ==
    /\ pc = "iter"
    /\ i < Len(paths)
    /\ Parent(paths[i + 1]) # None
    /\ \E r \in ParserOutcomes(paths[i + 1]) :
          /\ parse_result' = r
          /\ parsed' = Append(parsed, [location |-> paths[i + 1], outcome |-> r])
    /\ pc' = "parsed"
    /\ UNCHANGED <<paths, i, result, protos, ret, arg>>

\* from_file: error propagation or reduction, then return
FromFileReduce ==
    /\ pc = "parsed"
    /\ LET r == FromFileTail(parse_result) IN
          /\ result' = r
          /\ pc' = IF IsPanic(r) THEN "panicked" ELSE "from_file_returned"
          /\ ret' = IF IsPanic(r) THEN r ELSE ret
    /\ UNCHANGED <<paths, i, parse_result, protos, parsed, arg>>

\* an iteration that skips a location that failed and carries on
UnwrapAndPushSkipping ==
    /\ pc = "from_file_returned"
    /\ protos' = IF IsOk(result) THEN Append(protos, result.val) ELSE protos
    /\ i' = i + 1
    /\ pc' = "iter"
    /\ UNCHANGED <<paths, parse_result, result, ret, parsed, arg>>

\* an iteration that puts each new Proto in front of the earlier ones
UnwrapAndPushFront ==
    /\ pc = "from_file_returned"
    /\ IF IsOk(result)
       THEN /\ protos' = <<result.val>> \o protos
            /\ i' = i + 1
            /\ pc' = "iter"
            /\ UNCHANGED ret
       ELSE /\ pc' = "panicked"
            /\ ret' = [panic |-> "called Result::unwrap() on an Err value",
                       error |-> result.error]
            /\ UNCHANGED <<protos, i>>
    /\ UNCHANGED <<paths, parse_result, result, parsed, arg>>

\* the map closure's .unwrap() and collect's push of the Proto
UnwrapAndPush ==
    /\ pc = "from_file_returned"
    /\ IF IsOk(result)
       THEN /\ protos' = Append(protos, result.val)
            /\ i' = i + 1
            /\ pc' = "iter"
            /\ UNCHANGED ret
       ELSE /\ pc' = "panicked"
            /\ ret' = [panic |-> "called Result::unwrap() on an Err value",
                       error |-> result.error]
            /\ UNCHANGED <<protos, i>>
    /\ UNCHANGED <<paths, parse_result, result, parsed, arg>>

\* the iterator is exhausted: Ok(ZeroCopyBuffer(protos)) is returned
Return ==
    /\ pc = "iter"
    /\ i = Len(paths)
    /\ ret' = Ok(protos)
    /\ pc' = "returned"
    /\ UNCHANGED <<paths, i, parse_result, result, protos, parsed, arg>>

Next ==
    \/ FromFileNoParent
    \/ FromFileParse
    \/ FromFileReduce
    \/ UnwrapAndPush
    \/ Return

Spec == Init /\ [][Next]_vars

----------------------------------------------------------------------------
(* The classifiers and the reducer called on their own *)

Idle ==
    /\ paths = <<>>
    /\ i = 0
    /\ parse_result = NoValue
    /\ result = NoValue
    /\ protos = <<>>
    /\ parsed = <<>>
    /\ ret = NoValue

Called(v) ==
    /\ ret' = v
    /\ pc' = "done"
    /\ UNCHANGED <<paths, i, parse_result, result, protos, parsed, arg>>

InitMethod == Idle /\ pc = "call" /\ arg \in MethodDescriptorProtos
CallMethodFromDescriptorProto == pc = "call" /\ Called(MethodFromDescriptorProto(arg))
SpecMethod == InitMethod /\ [][CallMethodFromDescriptorProto]_vars

InitField == Idle /\ pc = "call" /\ arg \in FieldDescriptors
CallFieldFromDescriptor == pc = "call" /\ Called(FieldFromDescriptor(arg))
SpecField == InitField /\ [][CallFieldFromDescriptor]_vars

InitReduce == Idle /\ pc = "call" /\ arg \in FileDescriptors("auth.proto", MaxDecls, MaxMembers)
CallProtoFromFileDescriptor == pc = "call" /\ Called(ProtoFromFileDescriptor(arg))
SpecReduce == InitReduce /\ [][CallProtoFromFileDescriptor]_vars

----------------------------------------------------------------------------
(* Properties *)

FourShapes == {"Unary", "ClientStreaming", "ServerStreaming", "BidirectionalStreaming"}

\* the truth table of the two streaming flags
ShapeOfFlags(client, server) ==
    CASE ~client /\ ~server -> "Unary"
      [] client /\ ~server  -> "ClientStreaming"
      [] ~client /\ server  -> "ServerStreaming"
      [] client /\ server   -> "BidirectionalStreaming"

\* C1: the Method returned by Method::from_descriptor_proto has the kind the
\* truth table gives for the descriptor's (client_streaming, server_streaming)
\* flag pair: Unary, ClientStreaming, ServerStreaming, BidirectionalStreaming
\* for (F,F), (T,F), (F,T), (T,T).
C1_KindFollowsTruthTable ==
    pc = "done" =>
        /\ ~IsPanic(ret)
        /\ ret.kind = ShapeOfFlags(client_streaming_flag(arg), server_streaming_flag(arg))

\* C10: for every combination of the streaming flags, from_descriptor_proto
\* returns a Method (the unreachable!() arm does not panic) whose kind is one
\* of the four call shapes and not the default Unknown.
C10_ClassificationTotal ==
    pc = "done" =>
        /\ ~IsPanic(ret)
        /\ ret.kind \in FourShapes
        /\ ret.kind # MethodKindDefault

\* a method with both flags set to true has been classified
C10_Witness ==
    /\ pc = "done"
    /\ arg.client_streaming = Some(TRUE)
    /\ arg.server_streaming = Some(TRUE)
    /\ ~IsPanic(ret)
    /\ ret.kind \in FourShapes

\* the FieldKind variant of a wire-type tag: the variant with the tag's
\* number for the 18 wire types, Unknown for any other tag
KindOfWireType(t) ==
    IF t \in 1..(Len(FieldKind) - 1) THEN FieldKind[t + 1] ELSE "Unknown"

\* C5: the Field returned by Field::from_descriptor carries the FieldKind
\* variant of the descriptor's wire-type tag, and Unknown only for a tag
\* outside the 18 wire types.
C5_FieldTypeFromTag ==
    pc = "done" => ret.field_type = KindOfWireType(arg.type)

C7_FieldTotalAndCopied ==
    pc = "done" =>
        /\ ~IsPanic(ret)
        /\ DOMAIN ret = DOMAIN FieldDefault
        /\ ret.optional = arg.is_singular
        /\ ret.repeated = arg.is_repeated
        /\ ret.name = arg.name

\* a descriptor answering true to both queries has been classified
C7_Witness ==
    /\ pc = "done"
    /\ arg.is_singular
    /\ arg.is_repeated
    /\ ret.optional
    /\ ret.repeated
    /\ ret.name = arg.name

\* the names of the elements of a sequence, in order
NamesOf(xs) == [k \in 1..Len(xs) |-> xs[k].name]

\* C4: reduction keeps count and declaration order at every level: the
\* services of the Proto are the descriptor's services in order, each
\* service's methods are its descriptor's methods in order, the messages are
\* the descriptor's messages in order and each message's fields are its
\* descriptor's fields in order; nothing is added, dropped or reordered.
C4_OrderPreserved ==
    pc = "done" =>
        /\ ~IsPanic(ret)
        /\ NamesOf(ret.services) = NamesOf(arg.service)
        /\ \A k \in 1..Len(arg.service) :
              /\ NamesOf(ret.services[k].methods) = NamesOf(arg.service[k].method)
              /\ \A j \in 1..Len(arg.service[k].method) :
                    ret.services[k].methods[j].input_type
                        = arg.service[k].method[j].input_type
        /\ NamesOf(ret.messages) = NamesOf(arg.messages)
        /\ \A k \in 1..Len(arg.messages) :
              /\ NamesOf(ret.messages[k].fields) = NamesOf(arg.messages[k].fields)
              /\ \A j \in 1..Len(arg.messages[k].fields) :
                    /\ ret.messages[k].fields[j].optional
                           = arg.messages[k].fields[j].is_singular
                    /\ ret.messages[k].fields[j].repeated
                           = arg.messages[k].fields[j].is_repeated

\* a file with two differently named services, the first with two
\* differently named methods, has been reduced
C4_Witness ==
    /\ pc = "done"
    /\ Len(arg.service) = 2
    /\ arg.service[1].name # arg.service[2].name
    /\ Len(arg.service[1].method) = 2
    /\ arg.service[1].method[1].name # arg.service[1].method[2].name
    /\ NamesOf(ret.services) = NamesOf(arg.service)
    /\ NamesOf(ret.services[1].methods) = NamesOf(arg.service[1].method)

\* a file with two differently named messages, the first with two
\* differently named fields, has been reduced
C4_WitnessMessages ==
    /\ pc = "done"
    /\ Len(arg.messages) = 2
    /\ arg.messages[1].name # arg.messages[2].name
    /\ Len(arg.messages[1].fields) = 2
    /\ arg.messages[1].fields[1].name # arg.messages[1].fields[2].name
    /\ NamesOf(ret.messages[1].fields) = NamesOf(arg.messages[1].fields)

\* the call of load_proto_from_files has ended, by return or by panic
Ended == pc \in {"returned", "panicked"}

\* C2: when the parser failed for a location of the batch,
\* load_proto_from_files hands its caller an error value naming that
\* location: the call returns (it does not crash) and what it returns is Err.
C2_ParseErrorSurfaced ==
    \A k \in 1..Len(parsed) :
        (Ended /\ IsErr(parsed[k].outcome)) =>
            /\ pc = "returned"
            /\ IsErr(ret)
            /\ ret.error.location = parsed[k].location

\* C3: when every location parsed, load_proto_from_files returns as many
\* Protos as it was given locations, and the k-th Proto is the reduction of
\* the descriptor the parser produced for the k-th location.
C3_OnePerInputInOrder ==
    pc = "returned" =>
        /\ IsOk(ret)
        /\ Len(ret.val) = Len(paths)
        /\ Len(parsed) = Len(paths)
        /\ \A k \in 1..Len(paths) :
              /\ parsed[k].location = paths[k]
              /\ ParseSucceeded(parsed[k].outcome)
              /\ ret.val[k].name = FileName(paths[k])
              /\ ret.val[k].package = parsed[k].outcome.val.val.package
              /\ NamesOf(ret.val[k].services) = NamesOf(parsed[k].outcome.val.val.service)
              /\ NamesOf(ret.val[k].messages) = NamesOf(parsed[k].outcome.val.val.messages)

\* two different locations were loaded and their Protos returned
C3_Witness ==
    /\ pc = "returned"
    /\ Len(paths) = 2
    /\ paths[1] # paths[2]
    /\ IsOk(ret)
    /\ Len(ret.val) = 2
    /\ ret.val[1].name = FileName(paths[1])
    /\ ret.val[2].name = FileName(paths[2])

\* C8: from_file is all-or-nothing: when the parser failed, from_file returns
\* an Err that carries no Proto; it returns a Proto only when the parser
\* produced a descriptor, and then the Proto's name and package are the
\* descriptor's.
C8_FromFileAllOrNothing ==
    pc = "from_file_returned" =>
        /\ IsErr(parse_result) =>
              /\ IsErr(result)
              /\ "val" \notin DOMAIN result
              /\ result.error.kind = "ParseError"
        /\ IsOk(result) =>
              /\ ParseSucceeded(parse_result)
              /\ result.val.name = parse_result.val.val.name
              /\ result.val.package = parse_result.val.val.package

\* from_file has returned the error of a failed parse
C8_Witness ==
    /\ pc = "from_file_returned"
    /\ IsErr(parse_result)
    /\ IsErr(result)

\* from_file has returned the Proto of a parsed descriptor
C8_WitnessOk ==
    /\ pc = "from_file_returned"
    /\ ParseSucceeded(parse_result)
    /\ IsOk(result)
    /\ result.val.name = parse_result.val.val.name

\* C9: locations are processed one after the other in input order and the
\* batch fails fast: the parser runs on a location only after every earlier
\* location was parsed, reduced and collected; after the first location that
\* fails no later location is parsed; and a failed batch hands the caller no
\* Protos, those of the earlier locations included.
C9_SequentialFailFast ==
    /\ \A k \in 1..Len(parsed) : parsed[k].location = paths[k]
    /\ Len(parsed) <= Len(protos) + 1
    /\ pc \in {"parsed", "from_file_returned"} => Len(parsed) = Len(protos) + 1
    /\ \A k \in 1..(Len(parsed) - 1) : ParseSucceeded(parsed[k].outcome)
    /\ pc = "panicked" => IsPanic(ret)
    /\ pc = "returned" =>
          /\ Len(parsed) = Len(paths)
          /\ \A k \in 1..Len(parsed) : ParseSucceeded(parsed[k].outcome)
    /\ pc \notin {"returned", "panicked"} => ret = NoValue

\* the second of two locations failed to parse after the first was reduced
\* and collected, and the batch ended without handing over any Proto
C9_Witness ==
    /\ pc = "panicked"
    /\ Len(paths) = 2
    /\ Len(parsed) = 2
    /\ Len(protos) = 1
    /\ ~ParseSucceeded(parsed[2].outcome)
    /\ IsPanic(ret)

====
